---- MODULE Spec2Model ----
(***************************************************************************)
(* Model of the countries informer core:                                   *)
(*   - NewsService (src/src/news/services/news.py): get_news, save_news,   *)
(*     build_model over the persisted News and Country tables;             *)
(*   - WeatherClient (src/src/geo/clients/weather.py): _request and        *)
(*     get_weather against the weather provider;                           *)
(*   - the DTO schemas (src/src/geo/clients/shemas.py): construction of    *)
(*     LocationDTO, CountryShortDTO and CountryDTO.                        *)
(*                                                                         *)
(* Python values: an Optional[T] is None or Some(v); a str is a sequence   *)
(* of characters where its length or substrings matter (alpha2 codes) and  *)
(* a TLA+ string otherwise; a list is a sequence; a dict is a function.    *)
(***************************************************************************)
EXTENDS Integers, Sequences, FiniteSets, TLC

VARIABLES
    news,       \* the persisted News table, rows in insertion order
    countries,  \* the persisted Country table: countries[pk] is the alpha2code
    last,       \* what the last NewsService call did and returned
    weather,    \* what the last WeatherClient.get_weather call did and returned
    dto         \* the outcome of the last DTO construction

vars == <<news, countries, last, weather, dto>>

(***************************************************************************)
(* Bounds of the model.                                                    *)
(***************************************************************************)
MaxRows == 2      \* rows the News table may hold
MaxBatch == 2     \* items in one save_news call
MaxCodeLen == 3   \* characters of an alpha2code handed to a DTO

(***************************************************************************)
(* Python values.                                                          *)
(***************************************************************************)
None == [some |-> FALSE]
Some(v) == [some |-> TRUE, val |-> v]

\* bool(x) of an Optional list, dict or str: None and the empty value are falsy.
Truthy(x) == x.some /\ x.val # <<>>
TruthyStr(x) == x.some /\ x.val # ""

\* Sequences over S of length at most n.
SeqUpTo(S, n) == UNION {[1..k -> S] : k \in 0..n}

(***************************************************************************)
(* Country codes.                                                          *)
(***************************************************************************)
EE == <<"E", "E">>
EZ == <<"E", "Z">>
ZZ == <<"Z", "Z">>

\* Codes the callers ask news for: full codes, a fragment, the empty string.
QueryCodes == {<<>>, <<"E">>, EE, EZ, ZZ}

\* Countries the country provider has metadata for.
WorldCodes == {EE, EZ}

\* country__alpha2code__contains=country_code: a substring match.
Contains(s, sub) ==
    \E i \in 0..(Len(s) - Len(sub)) : SubSeq(s, i + 1, i + Len(sub)) = sub

(***************************************************************************)
(* News items and rows.                                                    *)
(***************************************************************************)
\* Raw items of the news provider (NewsItemDTO): author, description and url
\* are optional, and may also arrive as empty strings.
ItemFull ==
    [source |-> "bbc", author |-> Some("ann"), title |-> "t1",
     description |-> Some("d1"), url |-> Some("u1"), published_at |-> 1]
ItemBare ==
    [source |-> "cnn", author |-> None, title |-> "t2",
     description |-> None, url |-> None, published_at |-> 2]
ItemBlank ==
    [source |-> "bbc", author |-> Some(""), title |-> "t3",
     description |-> Some(""), url |-> Some(""), published_at |-> 3]
Items == {ItemFull, ItemBare, ItemBlank}

\* What one call of NewsClient().get_news(country_code) may give back: None,
\* an empty list, or a list of items.
Responses ==
    {None, Some(<<>>), Some(<<ItemFull>>), Some(<<ItemBare, ItemBlank>>)}

\* Country.objects.get(pk=country_id) finds a row.
CountryExists(countryTbl, pk) == pk \in 1..Len(countryTbl)

\* A build_model that stores the author as given.
BuildModelNoDefault(news_item, country_id) ==
    [country_id |-> country_id,
     source |-> news_item.source,
     author |-> news_item.author,
     title |-> news_item.title,
     description |-> IF TruthyStr(news_item.description)
                     THEN news_item.description ELSE Some(""),
     url |-> IF TruthyStr(news_item.url) THEN news_item.url ELSE Some(""),
     published_at |-> news_item.published_at]

\* NewsService.build_model: the News row of an item, attributed to country_id.
build_model(news_item, country_id) ==
    [country_id |-> country_id,
     source |-> news_item.source,
     author |-> IF TruthyStr(news_item.author)
                THEN news_item.author ELSE Some(""),
     title |-> news_item.title,
     description |-> IF TruthyStr(news_item.description)
                     THEN news_item.description ELSE Some(""),
     url |-> IF TruthyStr(news_item.url) THEN news_item.url ELSE Some(""),
     published_at |-> news_item.published_at]

\* batch_size of bulk_create.
BatchSize == 1000

\* A bulk_create that loses the last row.
BulkCreateDropLast(newsTbl, rows, batch_size) ==
    newsTbl \o SubSeq(rows, 1, Len(rows) - 1)

\* News.objects.bulk_create(rows, batch_size): the rows are inserted in order,
\* one INSERT per batch of at most batch_size rows.
RECURSIVE bulk_create(_, _, _)
bulk_create(newsTbl, rows, batch_size) ==
    IF rows = <<>> THEN newsTbl
    ELSE LET n == IF Len(rows) < batch_size THEN Len(rows) ELSE batch_size
         IN bulk_create(newsTbl \o SubSeq(rows, 1, n),
                        SubSeq(rows, n + 1, Len(rows)), batch_size)

\* NewsService.save_news: [raised, news], the error raised ("" when the call
\* returns) and the News table after the call.  build_model looks the country
\* up for every item before anything is inserted, so a missing country raises
\* Country.DoesNotExist with the table untouched.
save_news(newsTbl, countryTbl, country_pk, items) ==
    IF items = <<>>
    THEN [raised |-> "", news |-> newsTbl]
    ELSE IF ~CountryExists(countryTbl, country_pk)
    THEN [raised |-> "DoesNotExist", news |-> newsTbl]
    ELSE [raised |-> "",
          news |-> bulk_create(newsTbl,
                               [i \in 1..Len(items) |->
                                   build_model(items[i], country_pk)],
                               BatchSize)]

(***************************************************************************)
(* The Country Service.                                                    *)
(***************************************************************************)
\* CountryService().get_countries_codes(): alpha2code -> pk of the persisted
\* countries, or None when the service has nothing to give (ok = FALSE).
get_countries_codes(countryTbl, ok) ==
    IF ok
    THEN Some([c \in {countryTbl[k] : k \in 1..Len(countryTbl)} |->
                 CHOOSE k \in 1..Len(countryTbl) : countryTbl[k] = c])
    ELSE None

\* CountryService().get_countries(country_code): fetches the country's
\* metadata and persists it; nothing is persisted when the fetch fails, when
\* the provider does not know the code, or when the country is stored already.
get_countries(countryTbl, country_code, fetched) ==
    IF /\ fetched
       /\ country_code \in WorldCodes
       /\ \A k \in 1..Len(countryTbl) : countryTbl[k] # country_code
    THEN Append(countryTbl, country_code)
    ELSE countryTbl

(***************************************************************************)
(* NewsService.get_news.                                                   *)
(***************************************************************************)
\* News.objects.filter(Q(country__alpha2code__contains=country_code))
filter(newsTbl, countryTbl, country_code) ==
    LET Test(r) == Contains(countryTbl[r.country_id], country_code)
    IN SelectSeq(newsTbl, Test)

\* codes is None or country_code not in codes
NotInCodes(codes, country_code) ==
    ~codes.some \/ country_code \notin DOMAIN codes.val

\* A check of the re-resolved codes that never gives up.
StillUnresolvedNever(codes, country_code) == FALSE

\* codes is None or codes.get(country_code, None) is None
StillUnresolved(codes, country_code) ==
    ~codes.some \/ country_code \notin DOMAIN codes.val

\* A tail of get_news in which the bulk_create of the fetched items runs.
ReturnFetchedThenPersist(newsTbl, countryTbl, country_code, fetched) ==
    LET pks == {k \in 1..Len(countryTbl) : countryTbl[k] = country_code}
    IN [ret |-> fetched,
        news |-> IF Truthy(fetched) /\ pks # {}
                 THEN bulk_create(newsTbl,
                                  [i \in 1..Len(fetched.val) |->
                                      build_model(fetched.val[i],
                                                  CHOOSE k \in pks : TRUE)],
                                  BatchSize)
                 ELSE newsTbl]

\* The tail of get_news: "return NewsClient().get_news(country_code)" comes
\* before the bulk_create of the fetched items, which therefore never runs:
\* [ret, news], the value returned and the News table after the call.
ReturnFetched(newsTbl, countryTbl, country_code, fetched) ==
    [ret |-> fetched, news |-> newsTbl]

\* The calls get_news(country_code) can make from the given tables: one
\* record per way the collaborators may answer.  Each call to a collaborator
\* is a choice at the place the code makes it: r1 and r2 are what the news
\* provider gives back to the first and the second NewsClient().get_news call,
\* ok1 and ok2 whether the two get_countries_codes calls give a mapping,
\* fetched whether get_countries gets the country.  A record tells what the
\* call did:
\*   local: the rows the filter found,  fetches: the provider's answers, in
\*   call order,  codes: the results of get_countries_codes, in call order,
\*   countryCalls: the arguments of get_countries, in call order,
\*   ret: the value returned,  news, countries: the tables afterwards.
get_news(newsTbl, countryTbl, country_code) ==
    LET local == filter(newsTbl, countryTbl, country_code)
        \* line 35 and what follows it
        Finish(fetches, codes, countryCalls, tbl) ==
            {LET tail == ReturnFetched(newsTbl, tbl, country_code, r2)
             IN [local |-> local, fetches |-> Append(fetches, r2),
                 codes |-> codes, countryCalls |-> countryCalls,
                 ret |-> tail.ret, news |-> tail.news, countries |-> tbl] :
             r2 \in Responses}
        \* lines 30-33
        Resolve(r1, codesA) ==
            UNION {UNION {
                LET tblB == get_countries(countryTbl, country_code, fetched)
                    codesB == get_countries_codes(tblB, ok2)
                IN IF StillUnresolved(codesB, country_code)
                   THEN {[local |-> local, fetches |-> <<r1>>,
                          codes |-> <<codesA, codesB>>,
                          countryCalls |-> <<country_code>>, ret |-> None,
                          news |-> newsTbl, countries |-> tblB]}
                   ELSE Finish(<<r1>>, <<codesA, codesB>>, <<country_code>>,
                             tblB) :
                ok2 \in BOOLEAN} : fetched \in BOOLEAN}
        \* lines 27-29
        Fetched(r1) ==
            IF ~Truthy(r1)
            THEN Finish(<<r1>>, <<>>, <<>>, countryTbl)
            ELSE UNION {
                LET codesA == get_countries_codes(countryTbl, ok1)
                IN IF NotInCodes(codesA, country_code)
                   THEN Resolve(r1, codesA)
                   ELSE Finish(<<r1>>, <<codesA>>, <<>>, countryTbl) :
                ok1 \in BOOLEAN}
    IN IF local # <<>>
       THEN Finish(<<>>, <<>>, <<>>, countryTbl)
       ELSE UNION {Fetched(r1) : r1 \in Responses}

(***************************************************************************)
(* The NewsService state machine.                                          *)
(***************************************************************************)
NoCall ==
    [op |-> "none", cc |-> <<>>, pk |-> 0, items |-> <<>>, local |-> <<>>,
     fetches |-> <<>>, codes |-> <<>>, countryCalls |-> <<>>, ret |-> None,
     raised |-> "", again |-> FALSE, same |-> FALSE]

\* A caller runs NewsService().get_news(country_code).  again tells that the
\* call before this one was get_news with the same code and that both found
\* local rows; same that the two calls returned the same value.
GetNews ==
    \E country_code \in QueryCodes :
        \E run \in get_news(news, countries, country_code) :
           /\ news' = run.news
           /\ countries' = run.countries
           /\ last' = [op |-> "get_news", cc |-> country_code, pk |-> 0,
                       items |-> <<>>, local |-> run.local,
                       fetches |-> run.fetches, codes |-> run.codes,
                       countryCalls |-> run.countryCalls, ret |-> run.ret,
                       raised |-> "",
                       again |-> /\ last.op = "get_news"
                                 /\ last.cc = country_code
                                 /\ last.local # <<>>
                                 /\ run.local # <<>>,
                       same |-> run.ret = last.ret]
           /\ UNCHANGED <<weather, dto>>

\* A caller runs NewsService().save_news(country_pk, items).
SaveNews ==
    \E country_pk \in 0..(Len(countries) + 1), items \in SeqUpTo(Items, MaxBatch) :
        LET run == save_news(news, countries, country_pk, items)
        IN /\ Len(news) + Len(items) <= MaxRows
           /\ news' = run.news
           /\ last' = [NoCall EXCEPT !.op = "save_news", !.pk = country_pk,
                                     !.items = items, !.raised = run.raised]
           /\ UNCHANGED <<countries, weather, dto>>

InitNews ==
    /\ news = <<>>
    /\ countries = <<>>
    /\ last = NoCall

(***************************************************************************)
(* WeatherClient.                                                          *)
(***************************************************************************)
\* HTTPStatus.OK
HTTP_OK == 200

Locations == {"Tallinn,EE", "Riga,LV", "Nowhere,ZZ"}

\* A JSON body of the current-weather endpoint.
Body(temp, humidity, speed, description, visibility) ==
    [main |-> [temp |-> temp, pressure |-> 1023, humidity |-> humidity],
     wind |-> [speed |-> speed],
     weather |-> <<[description |-> description]>>,
     visibility |-> visibility, dt |-> 1661870592, timezone |-> 7200]

WellFormedBodies ==
    {Body(t, h, s, d, v) : t \in {-5, 14}, h \in {54, 80}, s \in {0, 5},
                           d \in {"scattered clouds", "rain"},
                           v \in {300, 10000}}

\* Bodies that are JSON but not a weather report: {} (falsy), a report with
\* no "wind" key, a report with an empty "weather" list.
EmptyBody == <<>>
NoWindBody ==
    [main |-> [temp |-> 14, pressure |-> 1023, humidity |-> 54],
     weather |-> <<[description |-> "rain"]>>,
     visibility |-> 300, dt |-> 1661870592, timezone |-> 7200]
NoWeatherBody ==
    [main |-> [temp |-> 14, pressure |-> 1023, humidity |-> 54],
     wind |-> [speed |-> 5], weather |-> <<>>,
     visibility |-> 300, dt |-> 1661870592, timezone |-> 7200]
ErrorBody == [cod |-> 404]

\* What client.get(endpoint) may do: raise an httpx error (timeout, connection
\* failure), or give a response with a status and a JSON body.
Exchanges ==
    {[fault |-> f, status |-> 0, body |-> EmptyBody] :
        f \in {"ReadTimeout", "ConnectError"}}
    \cup {[fault |-> "", status |-> HTTP_OK, body |-> b] :
            b \in WellFormedBodies \cup {EmptyBody, NoWindBody, NoWeatherBody}}
    \cup {[fault |-> "", status |-> st, body |-> ErrorBody] :
            st \in {401, 404, 500}}

\* WeatherClient._request: [raised, ret].  Nothing catches what client.get
\* raises; a response gives its JSON on status 200 and None otherwise.
Request(exchange) ==
    IF exchange.fault # "" THEN [raised |-> exchange.fault, ret |-> None]
    ELSE IF exchange.status = HTTP_OK
    THEN [raised |-> "", ret |-> Some(exchange.body)]
    ELSE [raised |-> "", ret |-> None]

\* pydantic's int -> datetime conversion of dt: seconds since the epoch become
\* a date-time value.
FromTimestamp(seconds) == [epoch_seconds |-> seconds, tz |-> "UTC"]

\* WeatherInfoDTO(...) of a parsed body: the projection of its nested fields.
WeatherInfoDTO(result) ==
    [temp |-> result["main"]["temp"],
     pressure |-> result["main"]["pressure"],
     humidity |-> result["main"]["humidity"],
     wind_speed |-> result["wind"]["speed"],
     description |-> result["weather"][1]["description"],
     visibility |-> result["visibility"],
     dt |-> FromTimestamp(result["dt"]),
     timezone |-> result["timezone"]]

\* The key or index whose lookup fails while the DTO's arguments are built,
\* "" when every lookup succeeds.
LookupError(result) ==
    IF \E k \in {"main", "wind", "weather", "visibility", "dt", "timezone"} :
          k \notin DOMAIN result
    THEN "KeyError"
    ELSE IF result["weather"] = <<>> THEN "IndexError"
    ELSE ""

\* WeatherClient.get_weather: [raised, ret].
get_weather(location, exchange) ==
    LET result == Request(exchange)
    IN IF result.raised # "" THEN [raised |-> result.raised, ret |-> None]
       ELSE IF ~Truthy(result.ret) THEN [raised |-> "", ret |-> None]
       ELSE IF LookupError(result.ret.val) # ""
       THEN [raised |-> LookupError(result.ret.val), ret |-> None]
       ELSE [raised |-> "", ret |-> Some(WeatherInfoDTO(result.ret.val))]

NoWeatherCall ==
    [op |-> "none", location |-> "", fault |-> "", status |-> 0,
     raised |-> "", ret |-> None]

\* A caller runs WeatherClient().get_weather(location).
GetWeather ==
    \E location \in Locations, exchange \in Exchanges :
        LET run == get_weather(location, exchange)
        IN /\ weather' = [op |-> "get_weather", location |-> location,
                          fault |-> exchange.fault,
                          status |-> exchange.status,
                          raised |-> run.raised, ret |-> run.ret]
           /\ UNCHANGED <<news, countries, last, dto>>

(***************************************************************************)
(* DTO schemas.                                                            *)
(***************************************************************************)
\* Field(min_length=2, max_length=2) of LocationDTO.alpha2code
Alpha2MinLength == 2
Alpha2MaxLength == 2

Alpha2Chars == {"E", "Z"}
Alpha2Inputs == SeqUpTo(Alpha2Chars, MaxCodeLen)
Cities == {"Tallinn", "Riga", "Narva"}
CountryNames == {"Estonia", "Latvia", "Zedland"}

\* Valid values of the fields CountryDTO adds to CountryShortDTO.
CountryDetails ==
    [alpha3code |-> "EST", capital |-> "Tallinn", region |-> "Europe",
     subregion |-> "Northern Europe", population |-> 1331057,
     latitude |-> 59, longitude |-> 26, demonym |-> "Estonian",
     area |-> 45227, numeric_code |-> "233", flag |-> "http://flags/EE.svg",
     currencies |-> {[code |-> "EUR"]},
     languages |-> {[name |-> "Estonian", native_name |-> "eesti"]}]

\* LocationDTO(city=..., alpha2code=...): [raised, ret].  The alpha2code field
\* is constrained to min_length=2, max_length=2.
LocationDTO(city, alpha2code) ==
    IF Len(alpha2code) < Alpha2MinLength \/ Len(alpha2code) > Alpha2MaxLength
    THEN [raised |-> "ValidationError", ret |-> None]
    ELSE [raised |-> "", ret |-> Some([city |-> city, alpha2code |-> alpha2code])]

\* CountryShortDTO(name=..., alpha2code=...): alpha2code is a plain str field.
CountryShortDTO(name, alpha2code) ==
    [raised |-> "", ret |-> Some([name |-> name, alpha2code |-> alpha2code])]

\* CountryDTO(name=..., alpha2code=..., ...): CountryShortDTO's two fields,
\* inherited with their declarations, and the fields CountryDTO adds.
CountryDTO(name, alpha2code, details) ==
    LET base == CountryShortDTO(name, alpha2code)
    IN IF base.raised # "" THEN base
       ELSE [raised |-> "",
             ret |-> Some([name |-> name, alpha2code |-> alpha2code,
                           details |-> details])]

NoDTO ==
    [cls |-> "none", label |-> "", alpha2code |-> <<>>, raised |-> "",
     ret |-> None]

NewLocationDTO ==
    \E city \in Cities, alpha2code \in Alpha2Inputs :
        LET run == LocationDTO(city, alpha2code)
        IN /\ dto' = [cls |-> "LocationDTO", label |-> city,
                      alpha2code |-> alpha2code, raised |-> run.raised,
                      ret |-> run.ret]
           /\ UNCHANGED <<news, countries, last, weather>>

NewCountryShortDTO ==
    \E name \in CountryNames, alpha2code \in Alpha2Inputs :
        LET run == CountryShortDTO(name, alpha2code)
        IN /\ dto' = [cls |-> "CountryShortDTO", label |-> name,
                      alpha2code |-> alpha2code, raised |-> run.raised,
                      ret |-> run.ret]
           /\ UNCHANGED <<news, countries, last, weather>>

NewCountryDTO ==
    \E name \in CountryNames, alpha2code \in Alpha2Inputs :
        LET run == CountryDTO(name, alpha2code, CountryDetails)
        IN /\ dto' = [cls |-> "CountryDTO", label |-> name,
                      alpha2code |-> alpha2code, raised |-> run.raised,
                      ret |-> run.ret]
           /\ UNCHANGED <<news, countries, last, weather>>

(***************************************************************************)
(* Specifications.                                                         *)
(***************************************************************************)
Init ==
    /\ InitNews
    /\ weather = NoWeatherCall
    /\ dto = NoDTO

\* The NewsService over the persisted store.
Next == GetNews \/ SaveNews
Spec == Init /\ [][Next]_vars

\* The WeatherClient against the weather provider.
NextWeather == GetWeather
SpecWeather == Init /\ [][NextWeather]_vars

\* Construction of the DTOs.
NextDTO == NewLocationDTO \/ NewCountryShortDTO \/ NewCountryDTO
SpecDTO == Init /\ [][NextDTO]_vars

(***************************************************************************)
(* Properties of NewsService (checked under Spec).                         *)
(***************************************************************************)
\* C1: get_news called while the News table holds rows whose country's
\* alpha2code contains country_code returns exactly those rows and makes no
\* call to the news provider.
C1_LocalRowsNoRemote ==
    (last.op = "get_news" /\ last.local # <<>>)
        => (last.ret = Some(last.local) /\ last.fetches = <<>>)

\* C2: the value get_news returns is None or a non-empty list, never an empty
\* list.
C2_NeverEmptyList ==
    last.op = "get_news" => (~last.ret.some \/ last.ret.val # <<>>)

\* country_code is a key of the mapping get_countries_codes gave.
KnownCode(codes, country_code) ==
    codes.some /\ country_code \in DOMAIN codes.val

\* C3: when get_news finds no local rows, the provider returns data and
\* country_code is not among the known codes, get_countries(country_code) is
\* called once and the codes are resolved a second time; when the code is
\* still not among them, get_news returns None without a further call.
C3_UnknownCountryResolved ==
    (/\ last.op = "get_news"
     /\ last.local = <<>>
     /\ Len(last.fetches) >= 1
     /\ Truthy(last.fetches[1])
     /\ (Len(last.codes) >= 1 => ~KnownCode(last.codes[1], last.cc)))
        => /\ last.countryCalls = <<last.cc>>
           /\ Len(last.codes) = 2
           /\ (~KnownCode(last.codes[2], last.cc)
                  => last.ret = None /\ Len(last.fetches) = 1)

\* C3, its case: the provider had data for a country that the known codes
\* (a mapping) did not hold and that could not be resolved.
C3_Witness ==
    /\ last.op = "get_news"
    /\ last.local = <<>>
    /\ Len(last.fetches) = 1
    /\ Truthy(last.fetches[1])
    /\ Len(last.codes) = 2
    /\ last.codes[1].some
    /\ ~KnownCode(last.codes[1], last.cc)
    /\ ~KnownCode(last.codes[2], last.cc)
    /\ last.countryCalls = <<last.cc>>
    /\ last.ret = None

\* C4: no call of get_news changes the News table, whichever branch it takes.
C4_GetNewsNeverWrites ==
    [][last'.op = "get_news" => news' = news]_vars

\* C4, its case: get_news found no local rows, got news of a resolved country
\* from the provider and returned it, and the table still has no such rows.
C4_Witness ==
    /\ last.op = "get_news"
    /\ last.local = <<>>
    /\ Truthy(last.ret)
    /\ \E k \in 1..Len(countries) : countries[k] = last.cc
    /\ filter(news, countries, last.cc) = <<>>

\* C5: two calls of get_news in immediate succession with the same
\* country_code, both finding local rows, return the same value.
C5_TwiceSameResult == last.again => last.same

\* C6: within one call of get_news no fetch follows a fetch that failed or
\* returned no data.
C6_NoFetchAfterFailedFetch ==
    last.op = "get_news"
        => \A i \in 1..(Len(last.fetches) - 1) : Truthy(last.fetches[i])

\* C8: save_news that returns has appended one row per item, in order, each
\* attributed to country_pk and carrying its item's source, title and
\* published_at, and has changed nothing else; with an empty list, and when it
\* raises, the table is unchanged.
C8_SaveNewsOneRowPerItem ==
    [][last'.op = "save_news" =>
          IF last'.raised = ""
          THEN /\ Len(news') = Len(news) + Len(last'.items)
               /\ SubSeq(news', 1, Len(news)) = news
               /\ \A i \in 1..Len(last'.items) :
                     LET row == news'[Len(news) + i]
                         item == last'.items[i]
                     IN /\ row.country_id = last'.pk
                        /\ row.source = item.source
                        /\ row.title = item.title
                        /\ row.published_at = item.published_at
          ELSE news' = news]_vars

\* C8, its case: a save_news of two items has returned and the table holds
\* their two rows.
C8_Witness ==
    /\ last.op = "save_news"
    /\ last.raised = ""
    /\ Len(last.items) = 2
    /\ Len(news) = 2

\* A row field is present and empty.
EmptyString(x) == x = Some("")

\* C9: every row of the News table has author, description and url present;
\* the rows of the last save_news carry their items' source, title and
\* published_at unchanged, and the empty string where the item's author,
\* description or url was absent or empty.
C9_RowsNormalised ==
    /\ \A i \in 1..Len(news) :
          news[i].author.some /\ news[i].description.some /\ news[i].url.some
    /\ (last.op = "save_news" /\ last.raised = "")
          => \A i \in 1..Len(last.items) :
                LET row == news[Len(news) - Len(last.items) + i]
                    item == last.items[i]
                IN /\ row.source = item.source
                   /\ row.title = item.title
                   /\ row.published_at = item.published_at
                   /\ ~TruthyStr(item.author) => EmptyString(row.author)
                   /\ ~TruthyStr(item.description)
                         => EmptyString(row.description)
                   /\ ~TruthyStr(item.url) => EmptyString(row.url)

\* C9, its case: an item without author, description and url was saved.
C9_Witness ==
    /\ last.op = "save_news"
    /\ last.raised = ""
    /\ \E i \in 1..Len(last.items) : last.items[i] = ItemBare
    /\ \E i \in 1..Len(news) :
          news[i].title = ItemBare.title /\ EmptyString(news[i].author)

(***************************************************************************)
(* Properties of WeatherClient (checked under SpecWeather).                *)
(***************************************************************************)
\* C7: get_weather returns None and raises nothing whenever the remote call
\* fails: on every status other than 200 and on every request-level failure.
C7_FailureGivesNone ==
    (weather.op = "get_weather"
        /\ (weather.fault # "" \/ weather.status # HTTP_OK))
        => (weather.raised = "" /\ weather.ret = None)

(***************************************************************************)
(* Properties of the DTO schemas (checked under SpecDTO).                  *)
(***************************************************************************)
\* C10: constructing a LocationDTO or a CountryDTO succeeds when alpha2code
\* has exactly 2 characters and fails with ValidationError otherwise.
C10_Alpha2Validated ==
    dto.cls \in {"LocationDTO", "CountryDTO"}
        => IF Len(dto.alpha2code) = 2
           THEN dto.raised = ""
           ELSE dto.raised = "ValidationError"

====
